---- MODULE Spec2Model ----
(***************************************************************************)
(* The WebRTC signaling relay of cloud-watch.                               *)
(*                                                                         *)
(* src/main.ts is the server with the token gate and the viewer count.     *)
(* src/unnamed/part_000 is the earlier server: the same relay, no gate, no *)
(* role table, no viewer count.  Its socket handlers are run side by side  *)
(* with those of main.ts, on the connections main.ts accepted and on the   *)
(* same transport events; the state of part_000 carries the suffix 0.      *)
(*                                                                         *)
(* A socket is named by the clientId its upgrade generated.  JavaScript    *)
(* Maps iterate in insertion order, so the registry is a sequence of keys. *)
(***************************************************************************)
EXTENDS Integers, Sequences, FiniteSets, TLC

\* How many upgrade requests reach Deno.upgradeWebSocket in one run.
MaxClients == 3

Ids == 1..MaxClients

(***************************************************************************)
(* Requests                                                                *)
(***************************************************************************)
ACCESS_TOKEN == "s3cret"

\* url.searchParams.get("token") when the query has no token parameter.
NoToken == "<null>"

Tokens == {ACCESS_TOKEN, "wrong", "", NoToken}

Req(p, u, t) == [pathname |-> p, upgrade |-> u, token |-> t]

\* Upgrade requests to /ws with every token, and requests that are none.
Requests ==
    {Req("/ws", "websocket", t) : t \in Tokens}
        \cup {Req("/ws", "<none>", ACCESS_TOKEN),
              Req("/favicon.ico", "<none>", NoToken),
              Req("/index.html", "websocket", "wrong")}

\* A gate that only asks for a token to be present.
validateTokenPresent(req) == req.token # NoToken

validateToken(req) == req.token = ACCESS_TOKEN

IsUpgrade(req) == req.pathname = "/ws" /\ req.upgrade = "websocket"

\* The response of main.ts's Deno.serve handler.
ServeStatus(req) ==
    IF IsUpgrade(req)
    THEN IF ~validateToken(req) THEN "401" ELSE "101"
    ELSE IF req.pathname = "/favicon.ico" THEN "204" ELSE "static"

(***************************************************************************)
(* Payloads: the text of event.data, and what JSON.parse makes of it.      *)
(***************************************************************************)
Undefined == "<undefined>"

D_garbage       == "not json"
D_null          == "null"
D_notype        == "{\"offer\":\"X\"}"
D_emptytype     == "{\"type\":\"\",\"offer\":\"X\"}"
D_offer         == "{\"type\":\"offer\",\"offer\":\"X\"}"
D_offer_missing == "{\"type\":\"offer\"}"
D_offer_empty   == "{\"type\":\"offer\",\"offer\":\"\"}"
D_answer        == "{\"type\":\"answer\",\"answer\":\"Y\"}"
D_answer_missing == "{\"type\":\"answer\"}"
D_ice           == "{\"type\":\"ice-candidate\",\"candidate\":\"c\"}"
D_ice_missing   == "{\"type\":\"ice-candidate\"}"
D_ice_empty     == "{\"type\":\"ice-candidate\",\"candidate\":\"\"}"
D_count         == "{\"type\":\"viewer-count\",\"count\":7}"

Payloads ==
    {D_garbage, D_null, D_notype, D_emptytype, D_offer, D_offer_missing,
     D_offer_empty, D_answer, D_answer_missing, D_ice, D_ice_missing,
     D_ice_empty, D_count}

Obj(t, o, a, c) ==
    [threw |-> FALSE, isNull |-> FALSE, type |-> t, offer |-> o,
     answer |-> a, candidate |-> c]

\* JSON.parse(event.data): throws on text that is no JSON, gives null for
\* the text null, and otherwise the object with the fields the text has.
JSONparse(data) ==
    CASE data = D_garbage -> [Obj(Undefined, Undefined, Undefined, Undefined)
                                EXCEPT !.threw = TRUE]
      [] data = D_null -> [Obj(Undefined, Undefined, Undefined, Undefined)
                                EXCEPT !.isNull = TRUE]
      [] data = D_notype         -> Obj(Undefined, "X", Undefined, Undefined)
      [] data = D_emptytype      -> Obj("", "X", Undefined, Undefined)
      [] data = D_offer          -> Obj("offer", "X", Undefined, Undefined)
      [] data = D_offer_missing  -> Obj("offer", Undefined, Undefined, Undefined)
      [] data = D_offer_empty    -> Obj("offer", "", Undefined, Undefined)
      [] data = D_answer         -> Obj("answer", Undefined, "Y", Undefined)
      [] data = D_answer_missing -> Obj("answer", Undefined, Undefined, Undefined)
      [] data = D_ice            -> Obj("ice-candidate", Undefined, Undefined, "c")
      [] data = D_ice_missing    -> Obj("ice-candidate", Undefined, Undefined, Undefined)
      [] data = D_ice_empty      -> Obj("ice-candidate", Undefined, Undefined, "")
      [] data = D_count          -> Obj("viewer-count", Undefined, Undefined, Undefined)

\* !v for the values a field takes here.
Falsy(v) == v = Undefined \/ v = ""

Digits == <<"0", "1", "2", "3", "4", "5", "6", "7", "8", "9">>

\* JSON.stringify({ type: 'viewer-count', count: viewerCount })
countMessage(viewerCount) ==
    "{\"type\":\"viewer-count\",\"count\":" \o Digits[viewerCount + 1] \o "}"

(***************************************************************************)
(* State                                                                   *)
(***************************************************************************)
NoRole == "<absent>"

VARIABLES
    readyState,   \* each socket's readyState; NONE: no such socket yet
    clients,      \* main.ts: the keys of the Map clients, insertion order
    clientRoles,  \* main.ts: the Map clientRoles, NoRole for no entry
    sent,         \* main.ts: the send calls of the last handler that returned
    out,          \* main.ts: how the last handler ended
    clients0,     \* part_000: the keys of the Map clients
    sent0,        \* part_000: the send calls of the last handler
    out0,         \* part_000: how the last handler ended
    last,         \* the last event: kind, socket, payload, throwing sockets
    pre,          \* the tables as they were before the last event
    hist          \* an earlier message (SpecLog), the last counts (SpecCount)

vars ==
    <<readyState, clients, clientRoles, sent, out, clients0, sent0,
      out0, last, pre, hist>>

Snapshot ==
    [clients |-> clients, clientRoles |-> clientRoles,
     readyState |-> readyState, clients0 |-> clients0]

Event(kind, id, data, throwing) ==
    [kind |-> kind, id |-> id, data |-> data, throwing |-> throwing]

Range(s) == {s[i] : i \in 1..Len(s)}

\* Map.prototype.set on the keys: a new key goes last, a known key stays.
MapSet(keys, id) == IF id \in Range(keys) THEN keys ELSE Append(keys, id)

\* A delete that removes nothing.
MapDeleteNothing(keys, id) == keys

\* Map.prototype.delete on the keys.
MapDelete(keys, id) == SelectSeq(keys, LAMBDA k : k # id)

(***************************************************************************)
(* The send loops.  client.send may throw; throwing is the set of sockets  *)
(* whose send throws during this handler.  forEach stops at the first      *)
(* callback that throws.  A send call is recorded with the socket it was   *)
(* made on, the text sent and the loop that made it (relay, count).        *)
(***************************************************************************)
FirstThrow(recips, throwing) ==
    IF \E i \in 1..Len(recips) : recips[i] \in throwing
    THEN CHOOSE i \in 1..Len(recips) :
            /\ recips[i] \in throwing
            /\ \A j \in 1..(i - 1) : recips[j] \notin throwing
    ELSE 0

SendLoop(recips, data, throwing, loop) ==
    LET k == FirstThrow(recips, throwing)
        n == IF k = 0 THEN Len(recips) ELSE k - 1
    IN  [sent  |-> [i \in 1..n |->
                        [to |-> recips[i], data |-> data, by |-> loop]],
         threw |-> k # 0]

\* A relay loop that ends after its first send.
RelayRecipientsFirst(keys, rs, clientId) ==
    LET all == SelectSeq(keys, LAMBDA id : id # clientId /\ rs[id] = "OPEN")
    IN  IF all = <<>> THEN <<>> ELSE <<all[1]>>

\* A relay that leaves out the test of readyState.
RelayRecipientsAnyState(keys, rs, clientId) ==
    SelectSeq(keys, LAMBDA id : id # clientId)

\* A relay that leaves out the test id !== clientId.
RelayRecipientsAll(keys, rs, clientId) ==
    SelectSeq(keys, LAMBDA id : rs[id] = "OPEN")

\* if (id !== clientId && client.readyState === WebSocket.OPEN)
RelayRecipients(keys, rs, clientId) ==
    SelectSeq(keys, LAMBDA id : id # clientId /\ rs[id] = "OPEN")

\* A count loop that leaves out the test of the role.
CountRecipientsAnyRole(keys, roles, rs) ==
    SelectSeq(keys, LAMBDA id : rs[id] = "OPEN")

\* if (clientRoles.get(id) === 'camera' && client.readyState === WebSocket.OPEN)
CountRecipients(keys, roles, rs) ==
    SelectSeq(keys, LAMBDA id : roles[id] = "camera" /\ rs[id] = "OPEN")

\* A count that tests the role against 'camera'.
ViewerCountCameras(roles) == Cardinality({id \in Ids : roles[id] = "camera"})

\* clientRoles.forEach(role => { if (role === 'viewer') viewerCount++; })
ViewerCount(roles) == Cardinality({id \in Ids : roles[id] = "viewer"})

broadcastViewerCount(keys, roles, rs, throwing) ==
    SendLoop(CountRecipients(keys, roles, rs),
             countMessage(ViewerCount(roles)), throwing, "count")

(***************************************************************************)
(* src/main.ts: the handlers, as functions of the tables they read.        *)
(***************************************************************************)
Handled(roles, msgs, how) == [clientRoles |-> roles, sent |-> msgs, out |-> how]

\* Track client role: answer makes a camera, offer makes a viewer.
Classify(roles, clientId, type) ==
    IF type = "answer" THEN [roles EXCEPT ![clientId] = "camera"]
    ELSE IF type = "offer" THEN [roles EXCEPT ![clientId] = "viewer"]
    ELSE roles

\* The field checks with === undefined in place of !.
MissingDataUndefined(message) ==
    \/ message.type = "offer" /\ message.offer = Undefined
    \/ message.type = "answer" /\ message.answer = Undefined

\* The field checks with the commented-out check of candidate put back.
MissingDataCandidate(message) ==
    \/ message.type = "offer" /\ Falsy(message.offer)
    \/ message.type = "answer" /\ Falsy(message.answer)
    \/ message.type = "ice-candidate" /\ Falsy(message.candidate)

\* The two field checks that follow the classification.
MissingData(message) ==
    \/ message.type = "offer" /\ Falsy(message.offer)
    \/ message.type = "answer" /\ Falsy(message.answer)

\* The relay loop and the viewer count that follows it, inside the try.
RelayAndCount(keys, roles, rs, clientId, data, throwing) ==
    LET relay == SendLoop(RelayRecipients(keys, rs, clientId), data, throwing,
                         "relay")
        count == broadcastViewerCount(keys, roles, rs, throwing)
    IN  IF relay.threw
        THEN Handled(roles, relay.sent, "caught-send")
        ELSE Handled(roles, relay.sent \o count.sent,
                     IF count.threw THEN "caught-send" ELSE "relayed")

\* The type check with === undefined in place of !.
MissingTypeUndefined(message) == message.type = Undefined

\* if (!message.type)
MissingType(message) == Falsy(message.type)

\* A handler that classifies the sender after the field checks.
onmessageClassifyLate(keys, roles, rs, clientId, data, throwing) ==
    LET message == JSONparse(data)
    IN  IF message.threw \/ message.isNull
        THEN Handled(roles, <<>>, "caught-parse")
        ELSE IF MissingType(message) \/ MissingData(message)
        THEN Handled(roles, <<>>, "dropped")
        ELSE RelayAndCount(keys, Classify(roles, clientId, message.type), rs,
                           clientId, data, throwing)

\* socket.onmessage of main.ts.  null.type throws a TypeError inside the try.
onmessage(keys, roles, rs, clientId, data, throwing) ==
    LET message == JSONparse(data)
    IN  IF message.threw \/ message.isNull
        THEN Handled(roles, <<>>, "caught-parse")
        ELSE IF MissingType(message)
        THEN Handled(roles, <<>>, "dropped")
        ELSE IF MissingData(message)
        THEN Handled(Classify(roles, clientId, message.type), <<>>, "dropped")
        ELSE RelayAndCount(keys, Classify(roles, clientId, message.type), rs,
                           clientId, data, throwing)

\* An onclose that forgets clientRoles.delete.
oncloseKeepRole(keys, roles, rs, clientId, throwing) ==
    LET keys2 == MapDelete(keys, clientId)
        count == broadcastViewerCount(keys2, roles, rs, throwing)
    IN  [clients |-> keys2, clientRoles |-> roles, sent |-> count.sent,
         out |-> IF count.threw THEN "uncaught" ELSE "ok"]

\* An onclose that announces one viewer fewer than it counts, as a stored
\* counter decremented on every close would.
oncloseDecrement(keys, roles, rs, clientId, throwing) ==
    LET keys2  == MapDelete(keys, clientId)
        roles2 == [roles EXCEPT ![clientId] = NoRole]
        n      == ViewerCount(roles2)
        count  == SendLoop(CountRecipients(keys2, roles2, rs),
                           countMessage(IF n > 0 THEN n - 1 ELSE 0),
                           throwing, "count")
    IN  [clients |-> keys2, clientRoles |-> roles2, sent |-> count.sent,
         out |-> IF count.threw THEN "uncaught" ELSE "ok"]

\* socket.onclose of main.ts: nothing catches what broadcastViewerCount throws.
onclose(keys, roles, rs, clientId, throwing) ==
    LET keys2  == MapDelete(keys, clientId)
        roles2 == [roles EXCEPT ![clientId] = NoRole]
        count  == broadcastViewerCount(keys2, roles2, rs, throwing)
    IN  [clients |-> keys2, clientRoles |-> roles2, sent |-> count.sent,
         out |-> IF count.threw THEN "uncaught" ELSE "ok"]

(***************************************************************************)
(* src/unnamed/part_000: the handlers.                                     *)
(***************************************************************************)
Handled0(msgs, how) == [sent |-> msgs, out |-> how]

\* A handler that leaves out the test of the offer and answer fields.
onmessage0Unchecked(keys, rs, clientId, data, throwing) ==
    LET message == JSONparse(data)
        relay   == SendLoop(RelayRecipients(keys, rs, clientId), data, throwing,
                         "relay")
    IN  IF message.threw \/ message.isNull
        THEN Handled0(<<>>, "caught-parse")
        ELSE IF MissingType(message)
        THEN Handled0(<<>>, "dropped")
        ELSE Handled0(relay.sent,
                      IF relay.threw THEN "caught-send" ELSE "relayed")

onmessage0(keys, rs, clientId, data, throwing) ==
    LET message == JSONparse(data)
        relay   == SendLoop(RelayRecipients(keys, rs, clientId), data, throwing,
                         "relay")
    IN  IF message.threw \/ message.isNull
        THEN Handled0(<<>>, "caught-parse")
        ELSE IF MissingType(message) \/ MissingData(message)
        THEN Handled0(<<>>, "dropped")
        ELSE Handled0(relay.sent,
                      IF relay.threw THEN "caught-send" ELSE "relayed")

onclose0(keys, clientId) == MapDelete(keys, clientId)

(***************************************************************************)
(* Events.  Every event of an accepted connection reaches the handlers of  *)
(* both servers.                                                           *)
(***************************************************************************)
Idle == "-"

\* No message is watched and no count has been sent.  watched: one accepted
\* message handled earlier, with the registered open sockets other than its
\* sender when it was handled and the sockets main.ts and part_000 sent it
\* to; announced: per registered socket, the last viewer-count text sent to
\* it.
NoHistory ==
    [watched   |-> [from |-> 0, data |-> "", others |-> {}, to |-> {}, to0 |-> {}],
     announced |-> [id \in Ids |-> ""]]

Init ==
    /\ readyState = [id \in Ids |-> "NONE"]
    /\ clients = <<>>
    /\ clientRoles = [id \in Ids |-> NoRole]
    /\ sent = <<>>
    /\ out = Idle
    /\ clients0 = <<>>
    /\ sent0 = <<>>
    /\ out0 = Idle
    /\ last = Event("init", 0, "", {})
    /\ pre = [clients |-> <<>>, clientRoles |-> [id \in Ids |-> NoRole],
              readyState |-> [id \in Ids |-> "NONE"], clients0 |-> <<>>]
    /\ hist = NoHistory

\* An error event is dispatched with readyState already CLOSED and the close
\* event is dispatched right after it: after onerror the next handler to
\* run is the onclose of the same socket.
CloseDue == last.kind = "error"

\* crypto.randomUUID(): an identifier no socket has had.
FreshId == CHOOSE id \in Ids : readyState[id] = "NONE" /\
                               \A j \in Ids : j < id => readyState[j] # "NONE"

\* Deno.serve's handler of main.ts on one request.
Serve(req) ==
    /\ ~CloseDue
    /\ ServeStatus(req) = "101" => \E id \in Ids : readyState[id] = "NONE"
    /\ pre' = Snapshot
    /\ out' = ServeStatus(req)
    /\ out0' = Idle
    /\ sent' = <<>>
    /\ sent0' = <<>>
    /\ IF ServeStatus(req) = "101"
       THEN /\ readyState' = [readyState EXCEPT ![FreshId] = "CONNECTING"]
            /\ last' = Event("upgrade", FreshId, req.token, {})
       ELSE /\ UNCHANGED readyState
            /\ last' = IF IsUpgrade(req)
                       THEN Event("upgrade", 0, req.token, {})
                       ELSE Event("http", 0, "", {})
    /\ UNCHANGED <<clients, clientRoles, clients0, hist>>

\* socket.onopen
OnOpen(c) ==
    /\ ~CloseDue
    /\ readyState[c] = "CONNECTING"
    /\ pre' = Snapshot
    /\ readyState' = [readyState EXCEPT ![c] = "OPEN"]
    /\ clients' = MapSet(clients, c)
    /\ clients0' = MapSet(clients0, c)
    /\ out' = "ok"
    /\ out0' = "ok"
    /\ sent' = <<>>
    /\ sent0' = <<>>
    /\ last' = Event("open", c, "", {})
    /\ UNCHANGED <<clientRoles, hist>>

\* socket.onmessage, the sends to the sockets in throwing throwing.
Message(c, data, throwing) ==
    /\ ~CloseDue
    /\ readyState[c] = "OPEN"
    /\ pre' = Snapshot
    /\ \E h  \in {onmessage(clients, clientRoles, readyState, c, data, throwing)},
          h0 \in {onmessage0(clients0, readyState, c, data, throwing)} :
           /\ clientRoles' = h.clientRoles
           /\ sent' = h.sent
           /\ out' = h.out
           /\ sent0' = h0.sent
           /\ out0' = h0.out
    /\ last' = Event("message", c, data, throwing)
    /\ UNCHANGED <<readyState, clients, clients0>>

\* socket.onclose, the transport being CLOSED when the event is dispatched.
\* kind is close, or close-again for a close event delivered a second time.
Close(c, throwing, kind) ==
    /\ pre' = Snapshot
    /\ readyState' = [readyState EXCEPT ![c] = "CLOSED"]
    /\ \E h \in {onclose(clients, clientRoles, readyState', c, throwing)} :
           /\ clients' = h.clients
           /\ clientRoles' = h.clientRoles
           /\ sent' = h.sent
           /\ out' = h.out
    /\ clients0' = onclose0(clients0, c)
    /\ sent0' = <<>>
    /\ out0' = "ok"
    /\ last' = Event(kind, c, "", throwing)

OnMessage(c, data) == Message(c, data, {}) /\ UNCHANGED hist

\* The close event is due for a socket that is open or closing, and for
\* the socket whose error event was just dispatched.
Closes(c) ==
    IF CloseDue THEN c = last.id ELSE readyState[c] \in {"OPEN", "CLOSING"}

OnClose(c) == Closes(c) /\ Close(c, {}, "close") /\ UNCHANGED hist

\* The transport leaves OPEN (a close frame, a timeout) before the close
\* event is dispatched; no handler runs.
BeginClose(c) ==
    /\ ~CloseDue
    /\ readyState[c] = "OPEN"
    /\ pre' = Snapshot
    /\ readyState' = [readyState EXCEPT ![c] = "CLOSING"]
    /\ out' = Idle
    /\ out0' = Idle
    /\ sent' = <<>>
    /\ sent0' = <<>>
    /\ last' = Event("closing", c, "", {})
    /\ UNCHANGED <<clients, clientRoles, clients0, hist>>

\* An error handler that also drops the socket from the registry.
OnErrorUnregisters(c) ==
    /\ ~CloseDue
    /\ readyState[c] \in {"CONNECTING", "OPEN", "CLOSING"}
    /\ pre' = Snapshot
    /\ readyState' = [readyState EXCEPT ![c] = "CLOSED"]
    /\ clients' = MapDelete(clients, c)
    /\ out' = "ok"
    /\ out0' = "ok"
    /\ sent' = <<>>
    /\ sent0' = <<>>
    /\ last' = Event("error", c, "", {})
    /\ UNCHANGED <<clientRoles, clients0, hist>>

\* socket.onerror: logs.  The transport has failed and is CLOSED.
OnError(c) ==
    /\ ~CloseDue
    /\ readyState[c] \in {"CONNECTING", "OPEN", "CLOSING"}
    /\ pre' = Snapshot
    /\ readyState' = [readyState EXCEPT ![c] = "CLOSED"]
    /\ out' = "ok"
    /\ out0' = "ok"
    /\ sent' = <<>>
    /\ sent0' = <<>>
    /\ last' = Event("error", c, "", {})
    /\ UNCHANGED <<clients, clientRoles, clients0, hist>>

Next ==
    \/ \E req \in Requests : Serve(req)
    \/ \E c \in Ids : OnOpen(c)
    \/ \E c \in Ids, data \in Payloads : OnMessage(c, data)
    \/ \E c \in Ids : BeginClose(c)
    \/ \E c \in Ids : OnError(c)
    \/ \E c \in Ids : OnClose(c)

Spec == Init /\ [][Next]_vars

\* The transport dispatches the close event of a socket whose error event
\* it has dispatched.
SpecFair == Spec /\ WF_vars(\E c \in Ids : CloseDue /\ OnClose(c))

(***************************************************************************)
(* The same run with a send that throws: during one handler, the send      *)
(* calls on one open socket throw, and the handler does call send on it.   *)
(***************************************************************************)
Open == {id \in Ids : readyState[id] = "OPEN"}

OnMessageThrow(c, data) ==
    \E f \in Open \ {c} :
        /\ Message(c, data, {f})
        /\ out' = "caught-send"
        /\ UNCHANGED hist

OnCloseThrow(c) ==
    /\ Closes(c)
    /\ \E f \in Open \ {c} :
        /\ Close(c, {f}, "close")
        /\ out' = "uncaught"
        /\ UNCHANGED hist

NextThrow ==
    \/ Next
    \/ \E c \in Ids, data \in Payloads : OnMessageThrow(c, data)
    \/ \E c \in Ids : OnCloseThrow(c)

SpecThrow == Init /\ [][NextThrow]_vars

(***************************************************************************)
(* The same run with the close event delivered again to a closed socket.   *)
(***************************************************************************)
OnCloseAgain(c) ==
    /\ ~CloseDue
    /\ readyState[c] = "CLOSED"
    /\ Close(c, {}, "close-again")
    /\ UNCHANGED hist

NextAgain ==
    \/ Next
    \/ \E c \in Ids : OnCloseAgain(c)

SpecAgain == Init /\ [][NextAgain]_vars

(***************************************************************************)
(* The same run with a record of one earlier accepted message, chosen at   *)
(* will among those handled.                                               *)
(***************************************************************************)
\* The sockets that msgs has a relay send to.
RelayTargets(msgs) == {msgs[i].to : i \in {j \in 1..Len(msgs) : msgs[j].by = "relay"}}

\* The texts of a recorded run: two that are accepted and one that is
\* dropped after its sender is classified.
PayloadsLog == {D_offer, D_answer, D_answer_missing}

OnMessageLog(c, data) ==
    /\ Message(c, data, {})
    /\ \E watch \in BOOLEAN :
          hist' =
            [hist EXCEPT !.watched =
                IF watch /\ out' = "relayed"
                THEN [from   |-> c,
                      data   |-> data,
                      others |-> {id \in Range(clients) \ {c} :
                                     readyState[id] = "OPEN"},
                      to     |-> RelayTargets(sent'),
                      to0    |-> RelayTargets(sent0')]
                ELSE hist.watched]

NextLog ==
    \/ \E req \in Requests : Serve(req)
    \/ \E c \in Ids : OnOpen(c)
    \/ \E c \in Ids, data \in PayloadsLog : OnMessageLog(c, data)
    \/ \E c \in Ids : BeginClose(c)
    \/ \E c \in Ids : OnError(c)
    \/ \E c \in Ids : OnClose(c)

SpecLog == Init /\ [][NextLog]_vars

(***************************************************************************)
(* The same run with a record of the last viewer count sent to each socket *)
(* of the registry.                                                        *)
(***************************************************************************)
\* The last viewer-count text of msgs sent to socket id, or was if none.
LastCount(msgs, id, was) ==
    LET mine == SelectSeq(msgs, LAMBDA m : m.to = id /\ m.by = "count")
    IN  IF mine = <<>> THEN was ELSE mine[Len(mine)].data

OnMessageCount(c, data) ==
    /\ Message(c, data, {})
    /\ hist' =
         [hist EXCEPT !.announced =
             [id \in Ids |-> LastCount(sent', id, hist.announced[id])]]

OnCloseCount(c) ==
    /\ Closes(c)
    /\ Close(c, {}, "close")
    /\ hist' =
         [hist EXCEPT !.announced =
             [id \in Ids |-> IF id = c THEN ""
                             ELSE LastCount(sent', id, hist.announced[id])]]

NextCount ==
    \/ \E req \in Requests : Serve(req)
    \/ \E c \in Ids : OnOpen(c)
    \/ \E c \in Ids, data \in PayloadsLog : OnMessageCount(c, data)
    \/ \E c \in Ids : BeginClose(c)
    \/ \E c \in Ids : OnError(c)
    \/ \E c \in Ids : OnCloseCount(c)

SpecCount == Init /\ [][NextCount]_vars

(***************************************************************************)
(* Properties.  last and pre name the event just handled and the tables    *)
(* before it; sent, out and the tables are what the handler left.          *)
(***************************************************************************)
\* The registered sockets other than the sender whose transport was open.
OpenOthers ==
    {id \in Range(pre.clients) : id # last.id /\ pre.readyState[id] = "OPEN"}

OpenOthers0 ==
    {id \in Range(pre.clients0) : id # last.id /\ pre.readyState[id] = "OPEN"}

\* How many send calls of one loop put this text on this socket.
Copies(msgs, id, data, loop) ==
    Cardinality({i \in 1..Len(msgs) :
                    msgs[i].to = id /\ msgs[i].data = data /\ msgs[i].by = loop})

\* The relay loop sent the event's text once to each of others, to nobody
\* else, and sent no other text.
RelayedTo(msgs, others) ==
    /\ \A id \in Ids :
          Copies(msgs, id, last.data, "relay") = IF id \in others THEN 1 ELSE 0
    /\ \A i \in 1..Len(msgs) : msgs[i].by = "relay" => msgs[i].data = last.data

CountMessages(msgs) == {i \in 1..Len(msgs) : msgs[i].by = "count"}

\* C1: a valid offer or answer from sender S is sent, as the text received,
\* exactly once to each other registered socket whose transport is open and
\* never to S, by main.ts and by part_000.
C1_RelayOfferAnswer ==
    (last.kind = "message" /\ last.data \in {D_offer, D_answer}) =>
        /\ RelayedTo(sent, OpenOthers)
        /\ RelayedTo(sent0, OpenOthers0)
        /\ Copies(sent, last.id, last.data, "relay") = 0

\* A valid offer relayed to the one open socket while a third entry of
\* the registry is closing and is skipped.
C1_Witness ==
    /\ last.kind = "message"
    /\ last.data = D_offer
    /\ Cardinality(OpenOthers) = 1
    /\ \E id \in Range(pre.clients) : id # last.id /\ pre.readyState[id] = "CLOSING"
    /\ Copies(sent, CHOOSE id \in OpenOthers : TRUE, D_offer, "relay") = 1

\* C2 (as claimed): a message from a socket that has a role leaves the role
\* as it was.
C2_RoleNeverReassigned ==
    (last.kind = "message" /\ pre.clientRoles[last.id] # NoRole) =>
        clientRoles[last.id] = pre.clientRoles[last.id]

\* C3: a viewer-count notification goes only to sockets that are cameras in
\* the role table, and open, when it is sent.
C3_CountOnlyToCameras ==
    \A i \in CountMessages(sent) :
        /\ clientRoles[sent[i].to] = "camera"
        /\ readyState[sent[i].to] = "OPEN"
        /\ sent[i].to \in Range(clients)

\* A camera's answer with two viewers open: the camera is sent the count,
\* the viewers only the answer.
C3_Witness ==
    /\ last.kind = "message"
    /\ last.data = D_answer
    /\ CountMessages(sent) # {}
    /\ Cardinality({id \in OpenOthers : clientRoles[id] = "viewer"}) = 2

\* C4: when a socket that is a viewer closes, onclose sends each open
\* camera one notification, whose count is the number of viewers before the
\* close less one, which is the number of viewers left in the role table.
C4_CloseOfViewerDecrements ==
    (last.kind = "close" /\ pre.clientRoles[last.id] = "viewer") =>
        /\ ViewerCount(clientRoles) = ViewerCount(pre.clientRoles) - 1
        /\ \A i \in 1..Len(sent) :
              sent[i].data = countMessage(ViewerCount(pre.clientRoles) - 1)
        /\ \A id \in Ids :
              Copies(sent, id, countMessage(ViewerCount(pre.clientRoles) - 1),
                     "count")
                = IF id \in OpenOthers /\ pre.clientRoles[id] = "camera"
                  THEN 1 ELSE 0

\* One of two viewers closes and the camera is told 1.
C4_Witness ==
    /\ last.kind = "close"
    /\ pre.clientRoles[last.id] = "viewer"
    /\ ViewerCount(pre.clientRoles) = 2
    /\ Len(sent) = 1
    /\ sent[1].data = countMessage(1)

\* C5: a close event delivered to a socket that is already closed ends
\* without an error, leaves the registry and the role table as they were,
\* and announces the number of viewers in the role table; when it follows
\* the first close directly, it sends what the first close sent.
C5_SecondCloseChangesNothing ==
    [][(last'.kind = "close-again") =>
          /\ out' = "ok"
          /\ clients' = clients
          /\ clientRoles' = clientRoles
          /\ clients0' = clients0
          /\ \A i \in 1..Len(sent') :
                sent'[i].data = countMessage(ViewerCount(clientRoles))
          /\ (last.kind = "close" /\ last.id = last'.id) => sent' = sent]_vars

\* A viewer has closed, the close is delivered again, and the camera is
\* told again that one viewer is left.
C5_Witness ==
    /\ last.kind = "close-again"
    /\ pre.readyState[last.id] = "CLOSED"
    /\ ViewerCount(clientRoles) = 1
    /\ Len(sent) = 1
    /\ sent[1].data = countMessage(1)

\* C6: an upgrade request to /ws whose token is missing or is not the
\* configured one is answered 401, creates no socket, leaves the registry and
\* the role table as they were and sends nothing.
C6_UnauthorizedChangesNothing ==
    (last.kind = "upgrade" /\ last.data # ACCESS_TOKEN) =>
        /\ out = "401"
        /\ last.id = 0
        /\ readyState = pre.readyState
        /\ clients = pre.clients
        /\ clientRoles = pre.clientRoles
        /\ sent = <<>>

\* A request without a token, refused while two sockets are registered.
C6_Witness ==
    /\ last.kind = "upgrade"
    /\ last.data = NoToken
    /\ out = "401"
    /\ Len(clients) = 2
    /\ \E id \in Ids : readyState[id] = "NONE"

\* C7: a message that parses and has no type, or a falsy one, is sent to
\* nobody, by main.ts and by part_000.
C7_MissingTypeNotRelayed ==
    (last.kind = "message" /\ last.data \in {D_notype, D_emptytype}) =>
        /\ sent = <<>>
        /\ sent0 = <<>>
        /\ out = "dropped"
        /\ out0 = "dropped"

\* A message with an empty type dropped while two other sockets are open.
C7_Witness ==
    /\ last.kind = "message"
    /\ last.data = D_emptytype
    /\ Cardinality(OpenOthers) = 2
    /\ sent = <<>>

\* C8: an offer without a truthy offer field, or an answer without a truthy
\* answer field, is sent to nobody; an offer with an offer field is relayed
\* to every other open socket.
C8_OfferAnswerFieldChecked ==
    /\ (last.kind = "message" /\
        last.data \in {D_offer_missing, D_offer_empty, D_answer_missing}) =>
            /\ sent = <<>>
            /\ sent0 = <<>>
            /\ out = "dropped"
            /\ out0 = "dropped"
    /\ (last.kind = "message" /\ last.data = D_offer) =>
            /\ RelayedTo(sent, OpenOthers)
            /\ RelayedTo(sent0, OpenOthers0)
            /\ out = "relayed"
            /\ out0 = "relayed"

\* An offer whose offer field is empty dropped while two others are open.
C8_Witness ==
    /\ last.kind = "message"
    /\ last.data = D_offer_empty
    /\ Cardinality(OpenOthers) = 2
    /\ sent = <<>>

\* C9: a message of type ice-candidate, with or without a candidate, or of
\* another type that is neither offer nor answer, is relayed to every other
\* open socket.
C9_OtherTypesRelayed ==
    (last.kind = "message" /\
     last.data \in {D_ice, D_ice_missing, D_ice_empty, D_count}) =>
        /\ RelayedTo(sent, OpenOthers)
        /\ RelayedTo(sent0, OpenOthers0)
        /\ out = "relayed"
        /\ out0 = "relayed"

\* An ice-candidate without a candidate relayed to two open sockets.
C9_Witness ==
    /\ last.kind = "message"
    /\ last.data = D_ice_missing
    /\ Cardinality(OpenOthers) = 2
    /\ Copies(sent, CHOOSE id \in OpenOthers : TRUE, D_ice_missing, "relay") = 1

\* What the loops of the handler send when no send throws.
Eligible ==
    IF last.kind = "message"
    THEN onmessage(pre.clients, pre.clientRoles, pre.readyState, last.id,
                   last.data, {}).sent
    ELSE onclose(pre.clients, pre.clientRoles, readyState, last.id, {}).sent

\* C10 (as claimed): when the send to one recipient throws, every other
\* recipient is still sent its message, and nothing is thrown out of
\* onmessage or onclose.
C10_SendFailureIsolated ==
    (last.kind \in {"message", "close"} /\ last.throwing # {}) =>
        /\ out # "uncaught"
        /\ \A i \in 1..Len(Eligible) :
              Eligible[i].to \notin last.throwing =>
                  Copies(sent, Eligible[i].to, Eligible[i].data, Eligible[i].by) = 1

\* C11 (as claimed): an identifier is in the registry exactly when its
\* transport is open or closing.
C11_RegisteredIffOpenOrClosing ==
    \A id \in Ids :
        id \in Range(clients) <=> readyState[id] \in {"OPEN", "CLOSING"}

\* C11 (amended): an identifier is in the registry exactly from its onopen
\* to its onclose.  Its transport is then OPEN or CLOSING, or CLOSED after an
\* error event whose close event is due next.  The registry holds no
\* identifier twice, gains one only in the onopen of a connecting socket and
\* loses one only in that socket's onclose.
C11_RegisteredFromOpenToClose ==
    /\ \A id \in Ids :
          id \in Range(clients) <=>
              \/ readyState[id] \in {"OPEN", "CLOSING"}
              \/ /\ readyState[id] = "CLOSED"
                 /\ CloseDue
                 /\ last.id = id
                 /\ pre.readyState[id] \in {"OPEN", "CLOSING"}
    /\ Len(clients) = Cardinality(Range(clients))
    /\ \A id \in Range(clients) \ Range(pre.clients) :
          last.kind = "open" /\ last.id = id /\ pre.readyState[id] = "CONNECTING"
    /\ \A id \in Range(pre.clients) \ Range(clients) :
          last.kind = "close" /\ last.id = id

\* The error event of a registered socket has been dispatched: the
\* transport is CLOSED and the entry is still in the registry, beside another.
C11_Witness ==
    /\ last.kind = "error"
    /\ readyState[last.id] = "CLOSED"
    /\ last.id \in Range(clients)
    /\ Len(clients) = 2

\* The texts the validator accepts, and those it drops.
Accepted == {D_offer, D_answer, D_ice, D_ice_missing, D_ice_empty, D_count}

Dropped ==
    {D_garbage, D_null, D_notype, D_emptytype, D_offer_missing, D_offer_empty,
     D_answer_missing}

\* The entries of the registry that the role table has as viewers.
RegisteredViewers == {id \in Range(clients) : clientRoles[id] = "viewer"}

\* C12: when an accepted message is handled, each open camera of the
\* registry, the sender included, is sent one viewer-count notification, and
\* its count is the number of registry entries that are viewers once the
\* message has classified its sender.
C12_CountAfterAcceptedMessage ==
    (last.kind = "message" /\ last.data \in Accepted) =>
        /\ \A i \in CountMessages(sent) :
              sent[i].data = countMessage(Cardinality(RegisteredViewers))
        /\ \A id \in Ids :
              Copies(sent, id, countMessage(Cardinality(RegisteredViewers)),
                     "count")
                = IF /\ id \in Range(clients)
                     /\ readyState[id] = "OPEN"
                     /\ clientRoles[id] = "camera"
                  THEN 1 ELSE 0

\* One camera and one viewer; a socket without a role sends a valid offer,
\* becomes the second viewer, and the camera is told 2.
C12_Witness ==
    /\ last.kind = "message"
    /\ last.data = D_offer
    /\ pre.clientRoles[last.id] = NoRole
    /\ Cardinality(RegisteredViewers) = 2
    /\ \E id \in OpenOthers :
          /\ clientRoles[id] = "camera"
          /\ Copies(sent, id, countMessage(2), "count") = 1
          /\ Copies(sent, id, D_offer, "relay") = 1

\* C13 (as claimed): a message the validator drops leaves the role table
\* and the registry as they were.
C13_DroppedLeavesTables ==
    (last.kind = "message" /\ last.data \in Dropped) =>
        /\ clientRoles = pre.clientRoles
        /\ clients = pre.clients

\* The close handler of socket c has run: c is in neither table and every
\* open camera of the registry has been sent the count of viewers.
ClosedAndRecounted(c) ==
    /\ last.kind = "close"
    /\ last.id = c
    /\ out = "ok"
    /\ c \notin Range(clients)
    /\ c \notin Range(clients0)
    /\ clientRoles[c] = NoRole
    /\ \A id \in Ids :
          Copies(sent, id, countMessage(Cardinality(RegisteredViewers)), "count")
            = IF /\ id \in Range(clients)
                 /\ readyState[id] = "OPEN"
                 /\ clientRoles[id] = "camera"
              THEN 1 ELSE 0

\* The error handler of socket c has just run.
Errored(c) == last.kind = "error" /\ last.id = c

\* C16: the error handler changes neither table and sends nothing, and the
\* close handler of the errored socket runs afterwards: every errored socket
\* is eventually out of both tables with the recount pushed.
C16_ErrorThenClose ==
    /\ [](\A c \in Ids : Errored(c) =>
            /\ clients = pre.clients
            /\ clientRoles = pre.clientRoles
            /\ clients0 = pre.clients0
            /\ sent = <<>>
            /\ sent0 = <<>>)
    /\ \A c \in Ids : Errored(c) ~> ClosedAndRecounted(c)

\* The close handler has run for an errored viewer: it has left both tables
\* and an open camera has been sent the new count.
C16_Witness ==
    /\ ClosedAndRecounted(last.id)
    /\ pre.readyState[last.id] = "CLOSED"
    /\ pre.clientRoles[last.id] = "viewer"
    /\ last.id \in Range(pre.clients)
    /\ \E i \in CountMessages(sent) : TRUE

\* Every send of this handler was made on a socket that is in the registry
\* and whose transport is open.
SentOnlyToOpen(msgs, keys) ==
    \A i \in 1..Len(msgs) :
        /\ msgs[i].to \in Range(keys)
        /\ pre.readyState[msgs[i].to] = "OPEN"
        /\ readyState[msgs[i].to] = "OPEN"

\* C17: no handler sends to a socket that is absent from the registry or
\* whose transport is not open (so none sends to a socket whose close
\* handler has run); such sockets are passed over without an error, and the
\* relay still reaches every other open socket of the registry.
C17_NoSendToAbsentOrNotOpen ==
    /\ SentOnlyToOpen(sent, clients)
    /\ SentOnlyToOpen(sent0, clients0)
    /\ out \notin {"caught-send", "uncaught"}
    /\ out0 # "caught-send"
    /\ (last.kind = "message" /\ last.data \in Accepted) =>
          /\ RelayedTo(sent, OpenOthers)
          /\ RelayedTo(sent0, OpenOthers0)

\* A candidate is relayed after the close handler of another socket has run:
\* the open socket is sent the text and the closed one is sent nothing.
C17_Witness ==
    /\ last.kind = "message"
    /\ last.data = D_ice
    /\ \E b, d \in Ids \ {last.id} :
          /\ b \notin Range(clients) /\ readyState[b] = "CLOSED"
          /\ d \in Range(clients) /\ readyState[d] = "OPEN"
          /\ Copies(sent, d, D_ice, "relay") = 1
          /\ Copies(sent0, d, D_ice, "relay") = 1
          /\ \A i \in 1..Len(sent) : sent[i].to # b

\* The sends of main.ts's handler that its relay loop made, in order.
RelaySends == SelectSeq(sent, LAMBDA m : m.by = "relay")

\* C18: on the same events of the connections main.ts accepts, part_000
\* and main.ts keep the same registry and send the same client texts to the
\* same sockets in the same order, and take the same branch of the message
\* handler; what main.ts sends besides is its viewer-count notifications.
C18_SameRelay ==
    /\ clients0 = clients
    /\ sent0 = RelaySends
    /\ last.kind = "message" => out0 = out
    /\ \A i \in 1..Len(sent) :
          sent[i].by # "relay" =>
              /\ sent[i].by = "count"
              /\ sent[i].data = countMessage(Cardinality(RegisteredViewers))

\* A valid answer goes to two sockets, in the same order in both servers,
\* and main.ts sends a viewer count besides.
C18_Witness ==
    /\ last.kind = "message"
    /\ last.data = D_answer
    /\ Len(sent0) = 2
    /\ sent0[1].to # sent0[2].to
    /\ sent0 = RelaySends
    /\ Len(sent) > Len(sent0)

\* The texts whose type is viewer-count: the server's notifications and the
\* client text D_count.
ViewerCountTexts == {countMessage(n) : n \in 0..MaxClients} \cup {D_count}

\* C19 (as claimed): every text of type viewer-count that a socket is sent
\* was made by broadcastViewerCount, so the socket is a camera and the count
\* is the number of viewers; the relay loop sends no text of that type.
C19_ViewerCountServerOriginated ==
    \A i \in 1..Len(sent) :
        sent[i].data \in ViewerCountTexts =>
            /\ sent[i].by = "count"
            /\ clientRoles[sent[i].to] = "camera"
            /\ sent[i].data = countMessage(Cardinality(RegisteredViewers))

\* The identifiers that have an entry in the role table.
RoleIds == {id \in Ids : clientRoles[id] # NoRole}

\* C20: the identifiers of the role table are identifiers of the registry,
\* so the viewer count is the number of registered viewers.
C20_RolesWithinRegistry ==
    /\ RoleIds \subseteq Range(clients)
    /\ ViewerCount(clientRoles) = Cardinality(RegisteredViewers)

\* The close handler of a socket that had a role has run while another
\* socket keeps its role and a third is registered without one.
C20_Witness ==
    /\ last.kind = "close"
    /\ pre.clientRoles[last.id] # NoRole
    /\ last.id \notin RoleIds
    /\ RoleIds # {}
    /\ Range(clients) \ RoleIds # {}

\* C14 (as claimed): after every completed handler, the last viewer-count
\* text sent to each open camera of the registry carries the current number
\* of viewers.
C14_LatestCountIsCurrent ==
    last.kind \in {"open", "message", "close"} =>
        \A id \in Range(clients) :
            (readyState[id] = "OPEN" /\ clientRoles[id] = "camera") =>
                hist.announced[id] = countMessage(Cardinality(RegisteredViewers))

\* The registered open sockets other than the sender of the message whose
\* handler is about to run or has just run.
OthersNow(c) == {id \in Range(clients) \ {c} : readyState[id] = "OPEN"}

\* C15: an accepted message is sent to every registered open socket other
\* than its sender; and when a message m2 of a sender is handled after a
\* message m1 of the same sender, every socket registered and open for both
\* was sent m1 by m1's handler and is sent m2 by m2's, by main.ts and by
\* part_000.
C15_AllRecipientsInOrder ==
    /\ []((last.kind = "message" /\ last.data \in Accepted) =>
            /\ RelayedTo(sent, OpenOthers)
            /\ RelayedTo(sent0, OpenOthers0))
    /\ [][(/\ last'.kind = "message"
           /\ last'.data \in Accepted
           /\ hist.watched.from = last'.id) =>
             \A r \in hist.watched.others \cap OthersNow(last'.id) :
                 /\ r \in hist.watched.to
                 /\ r \in hist.watched.to0
                 /\ Copies(sent', r, last'.data, "relay") = 1
                 /\ Copies(sent0', r, last'.data, "relay") = 1]_vars

\* A socket's offer was sent to the one open socket there was; a third
\* socket is open when its answer is handled: the answer goes to both, the
\* first of them having been sent the offer before.
C15_Witness ==
    /\ last.kind = "message"
    /\ last.data = D_answer
    /\ hist.watched.from = last.id
    /\ hist.watched.data = D_offer
    /\ Cardinality(hist.watched.others) = 1
    /\ hist.watched.to = hist.watched.others
    /\ Cardinality(OpenOthers) = 2
    /\ hist.watched.others \subseteq OpenOthers
    /\ \A r \in OpenOthers : Copies(sent, r, D_answer, "relay") = 1

====
